---- MODULE Spec2Model ----
(***************************************************************************)
(* A model of the youtubeview program: the proxy-line parser and the proxy *)
(* list loader (proxy_manager.py), the proxy rotation (get_random_proxy,   *)
(* mark_proxy_failed), the randomized timing (youtube_bot.py on top of     *)
(* config_manager.py) and the view loop driven by main.py.                 *)
(*                                                                         *)
(* Text is modelled as a sequence of one-character strings, so that        *)
(* splitting, integer parsing and formatting are computed as Python        *)
(* computes them.                                                          *)
(***************************************************************************)
EXTENDS Integers, Sequences, FiniteSets, TLC

VARIABLES
    \* ---- _parse_proxy_line as a pure function (SpecParse)
    line,               \* the text handed to _parse_proxy_line
    parsed,             \* what it returned (None or a proxy record)
    key,                \* _proxy_key of the record it returned
    \* ---- ProxyManager
    proxy_file,         \* the file's lines, or NoFile when it does not exist
    proxies,            \* self.proxies
    working_proxies,    \* self.working_proxies
    failed_proxies,     \* self.failed_proxies (a set of host:port keys)
    proxy,              \* the value the last get_random_proxy returned
    probes_in_call,     \* _test_proxy calls of the current/last get_random_proxy
    probe_total,        \* _test_proxy calls since the process started
    probe_log,          \* the proxies probed so far, each with its result
    \* ---- ConfigManager / timing (SpecDelay)
    cfg,                \* the four TIMING entries as read from the file
    drawn,              \* the last value drawn: which setting, and the draw
    \* ---- main and YouTubeBot.generate_views
    pc,                 \* position of the (single) thread of control
    dry_run,            \* args.dry_run
    views,              \* args.views
    config_source,      \* "file" or "default" once ConfigManager is built
    i,                  \* the loop variable of generate_views
    attempted,          \* loop iterations entered
    success_count,      \* self.success_count
    failed_count,       \* self.failed_count
    browser,            \* the handle create_browser returned (0 is None)
    live_browsers,      \* browser processes started and not yet quit
    started_browsers,   \* browser processes ever started
    gv_called,          \* generate_views has been called
    exit_status,        \* the process's exit status (-1 while running)
    interrupted,        \* a KeyboardInterrupt reached main
    calls,              \* calls of generate_views on the bot so far
    call_successes,     \* views of the current call that _simulate_view passed
    result              \* what the last generate_views returned

vars == << line, parsed, key, proxy_file, proxies, working_proxies, failed_proxies,
           proxy, probes_in_call, probe_total, probe_log, cfg, drawn, pc, dry_run, views,
           config_source, i, attempted, success_count, failed_count, browser,
           live_browsers, started_browsers, gv_called, exit_status, interrupted,
           calls, call_successes, result >>

parseVars == << line, parsed, key >>
proxyVars == << proxy_file, proxies, working_proxies, failed_proxies, proxy,
                probes_in_call, probe_total,
                          probe_log >>
delayVars == << cfg, drawn >>
botVars   == << dry_run, views, config_source, i, attempted, success_count,
                failed_count, browser, live_browsers, started_browsers,
                gv_called, exit_status, interrupted, calls, call_successes,
                result >>
callVars  == << calls, call_successes, result >>

(***************************************************************************)
(* Bounds of the model.                                                    *)
(***************************************************************************)
MaxLineLen == 7     \* longest text handed to _parse_proxy_line in SpecParse
MaxLines   == 2     \* most lines of a proxy file (SpecProxy)
MaxMainLines == 1   \* most lines of the proxy file of a whole run (Spec)
MaxViews   == 2     \* largest --views
MaxCfg     == 3     \* largest number written in a TIMING entry
RandDen    == 4     \* random.random() is drawn as k / RandDen
MaxCalls   == 2     \* most calls of generate_views on one bot (SpecBot)

(***************************************************************************)
(* Text.                                                                   *)
(***************************************************************************)
Alphabet == {"h", "0", "1", ":", "/"}
Digits   == <<"0", "1", "2", "3", "4", "5", "6", "7", "8", "9">>
Whitespace == {" "}

None == [none |-> TRUE]                 \* Python's None
NoFile == [exists |-> FALSE, lines |-> <<>>]    \* open() raises FileNotFoundError

HTTP == <<"h", "t", "t", "p">>

\* the TIMING section where the model does not look at it
NoConfig ==
    [min_delay_between_views |-> [kind |-> "absent", value |-> 0],
     max_delay_between_views |-> [kind |-> "absent", value |-> 0],
     min_watch_duration      |-> [kind |-> "absent", value |-> 0],
     max_watch_duration      |-> [kind |-> "absent", value |-> 0]]

Texts(S, n) == UNION {[1..k -> S] : k \in 0..n}

\* the smallest index at or after which s holds the separator sep, 0 if none
FindFrom(s, sep) ==
    LET hits == {k \in 1..(Len(s) - Len(sep) + 1) :
                    SubSeq(s, k, k + Len(sep) - 1) = sep}
    IN  IF hits = {} THEN 0 ELSE CHOOSE k \in hits : \A j \in hits : k <= j

\* str.split(sep): the pieces between the non-overlapping occurrences of sep
RECURSIVE Split(_, _)
Split(s, sep) ==
    LET k == FindFrom(s, sep)
    IN  IF k = 0 THEN <<s>>
        ELSE <<SubSeq(s, 1, k - 1)>>
             \o Split(SubSeq(s, k + Len(sep), Len(s)), sep)

\* sep in s
Contains(s, sep) == FindFrom(s, sep) # 0

\* str.strip()
RECURSIVE Strip(_)
Strip(s) ==
    IF s = <<>> THEN s
    ELSE IF Head(s) \in Whitespace THEN Strip(Tail(s))
    ELSE IF s[Len(s)] \in Whitespace THEN Strip(SubSeq(s, 1, Len(s) - 1))
    ELSE s

DigitValue(c) == CHOOSE d \in 0..9 : Digits[d + 1] = c

\* int(s) raises ValueError unless s is a decimal literal
IntRaises(s) == s = <<>> \/ \E k \in 1..Len(s) : \A d \in 1..10 : Digits[d] # s[k]

RECURSIVE IntOf(_)
IntOf(s) ==
    IF s = <<>> THEN 0
    ELSE 10 * IntOf(SubSeq(s, 1, Len(s) - 1)) + DigitValue(s[Len(s)])

\* str(n) of an f-string, n >= 0
RECURSIVE StrOf(_)
StrOf(n) == IF n < 10 THEN <<Digits[n + 1]>>
            ELSE StrOf(n \div 10) \o <<Digits[(n % 10) + 1]>>

(***************************************************************************)
(* proxy_manager.py: parsing and keys.                                     *)
(***************************************************************************)
\* the record built at lines 56-65 of the parser
ProxyRecord(protocol, host, port, parts) ==
    IF Len(parts) >= 4
    THEN [host |-> host, port |-> port, protocol |-> protocol,
          username |-> parts[3], password |-> parts[4]]
    ELSE [host |-> host, port |-> port, protocol |-> protocol]

\* the parser without the authentication step
_parse_proxy_line_NoCredentials(l) ==
    LET parts == Split(l, <<":">>)
    IN  IF Len(parts) >= 2
        THEN IF Contains(parts[1], <<"/", "/">>)
             THEN IF IntRaises(parts[2]) THEN None
                  ELSE [host |-> Split(parts[1], <<"/", "/">>)[2],
                        port |-> IntOf(parts[2]),
                        protocol |-> Split(parts[1], <<"/", "/">>)[1]]
             ELSE IF IntRaises(parts[2]) THEN None
                  ELSE [host |-> parts[1], port |-> IntOf(parts[2]),
                        protocol |-> HTTP]
        ELSE None

\* _parse_proxy_line: int() raising is caught, and None returned
_parse_proxy_line(l) ==
    LET parts == Split(l, <<":">>)
    IN  IF Len(parts) >= 2
        THEN IF Contains(parts[1], <<"/", "/">>)
             THEN IF IntRaises(parts[2]) THEN None
                  ELSE ProxyRecord(Split(parts[1], <<"/", "/">>)[1],
                                   Split(parts[1], <<"/", "/">>)[2],
                                   IntOf(parts[2]), parts)
             ELSE IF IntRaises(parts[2]) THEN None
                  ELSE ProxyRecord(HTTP, parts[1], IntOf(parts[2]), parts)
        ELSE None

_proxy_key(p) == p.host \o <<":">> \o StrOf(p.port)

Range(s) == {s[k] : k \in 1..Len(s)}

(***************************************************************************)
(* proxy_manager.py: the proxy file and load_proxies.                      *)
(***************************************************************************)
\* the lines a proxy file of the model is made of
FileLines ==
    { <<"h", ":", "1">>,                            \* host:port
      <<"h", ":", "1", ":", "u", ":", "p">>,        \* host:port:user:pass
      <<"g", ":", "2">>,                            \* another host:port
      <<"s", ":", "/", "/", "h", ":", "1">>,        \* protocol://host:port
      <<"#", "g", ":", "2">>,                       \* a comment
      <<" ", "g", ":", "2", " ">>,                  \* padded with blanks
      <<>> }                                        \* an empty line

ProxyFiles(n) ==
    {NoFile} \cup {[exists |-> TRUE, lines |-> ls] : ls \in Texts(FileLines, n)}

\* the loop of load_proxies over the lines read
RECURSIVE LoadLines(_)
LoadLines(lines) ==
    IF lines = <<>> THEN <<>>
    ELSE LET l == Strip(Head(lines))
             p == _parse_proxy_line(l)
         IN  (IF l # <<>> /\ l[1] # "#" /\ p # None THEN <<p>> ELSE <<>>)
             \o LoadLines(Tail(lines))

\* self.proxies after load_proxies (it starts empty, and stays so without a file)
load_proxies(f) == IF f.exists THEN LoadLines(f.lines) ELSE <<>>

(***************************************************************************)
(* _parse_proxy_line on every text of the alphabet (SpecParse).            *)
(***************************************************************************)
InitParse ==
    /\ line \in Texts(Alphabet, MaxLineLen)
    /\ parsed = None /\ key = <<>>
    /\ pc = "parse"
    /\ proxy_file = NoFile /\ proxies = <<>> /\ working_proxies = <<>>
    /\ failed_proxies = {} /\ proxy = None
    /\ probes_in_call = 0 /\ probe_total = 0 /\ probe_log = <<>>
    /\ cfg = NoConfig /\ drawn = [setting |-> "none", value |-> 0]
    /\ dry_run = FALSE /\ views = 0 /\ config_source = "none"
    /\ i = 0 /\ attempted = 0 /\ success_count = 0 /\ failed_count = 0
    /\ browser = 0 /\ live_browsers = 0 /\ started_browsers = 0
    /\ gv_called = FALSE /\ exit_status = -1 /\ interrupted = FALSE
    /\ calls = 0 /\ call_successes = 0 /\ result = 0

\* proxy = self._parse_proxy_line(line), then self._proxy_key(proxy)
ParseLine ==
    /\ pc = "parse"
    /\ parsed' = _parse_proxy_line(line)
    /\ key' = IF parsed' = None THEN <<>> ELSE _proxy_key(parsed')
    /\ pc' = "parsed"
    /\ UNCHANGED << line, proxyVars, delayVars, botVars >>

NextParse == ParseLine

SpecParse == InitParse /\ [][NextParse]_vars

(***************************************************************************)
(* The forms of a proxy line, read off the text itself.                    *)
(***************************************************************************)
IsHost(s)  == s # <<>> /\ \A k \in 1..Len(s) : s[k] \notin {":", "/"}
IsPort(s)  == s # <<>> /\ \A k \in 1..Len(s) : \E d \in 1..10 : Digits[d] = s[k]
IsField(s) == \A k \in 1..Len(s) : s[k] # ":"

\* the number a string of decimal digits writes
RECURSIVE Numeral(_, _)
Numeral(s, acc) ==
    IF s = <<>> THEN acc ELSE Numeral(Tail(s), 10 * acc + DigitValue(Head(s)))

\* a string of decimal digits without its leading zeros
RECURSIVE Canonical(_)
Canonical(s) == IF Len(s) > 1 /\ Head(s) = "0" THEN Canonical(Tail(s)) ELSE s

Part(s, a, b) == SubSeq(s, a + 1, b - 1)    \* the text between positions a and b
Colons(s) == {k \in 1..Len(s) : s[k] = ":"}  \* where s holds a colon

\* l is host:port, its colon at position a
HostPortAt(l, a) ==
    /\ l[a] = ":"
    /\ IsHost(Part(l, 0, a)) /\ IsPort(Part(l, a, Len(l) + 1))

\* l is host:port:user:pass, its colons at positions a < b < c
HostPortUserPassAt(l, a, b, c) ==
    /\ a < b /\ b < c
    /\ l[a] = ":" /\ l[b] = ":" /\ l[c] = ":"
    /\ IsHost(Part(l, 0, a)) /\ IsPort(Part(l, a, b))
    /\ IsField(Part(l, b, c)) /\ IsField(Part(l, c, Len(l) + 1))

\* C6 as the spec states it: the record holds host, the port as an integer,
\* protocol http and the credentials given, and _proxy_key gives back the
\* line's own host:port text.
C6_KeyGivesBackHostPort ==
    pc = "parsed" =>
      /\ \A a \in Colons(line) : HostPortAt(line, a) =>
            /\ parsed = [host |-> Part(line, 0, a),
                         port |-> Numeral(Part(line, a, Len(line) + 1), 0),
                         protocol |-> HTTP]
            /\ key = line
      /\ \A a, b, c \in Colons(line) : HostPortUserPassAt(line, a, b, c) =>
            /\ parsed = [host |-> Part(line, 0, a),
                         port |-> Numeral(Part(line, a, b), 0),
                         protocol |-> HTTP,
                         username |-> Part(line, b, c),
                         password |-> Part(line, c, Len(line) + 1)]
            /\ key = Part(line, 0, b)

\* C6, amended: for host:port and host:port:user:pass with a host free of
\* ':' and '/', a port of decimal digits and credentials free of ':', the
\* record holds host, the port's number, protocol http and the credentials
\* given (none for host:port); _proxy_key gives host, ':' and the port's
\* number in canonical decimal, i.e. the port text without leading zeros.
C6_ParseHostPort ==
    pc = "parsed" =>
      /\ \A a \in Colons(line) : HostPortAt(line, a) =>
            /\ parsed = [host |-> Part(line, 0, a),
                         port |-> Numeral(Part(line, a, Len(line) + 1), 0),
                         protocol |-> HTTP]
            /\ key = Part(line, 0, a) \o <<":">>
                     \o Canonical(Part(line, a, Len(line) + 1))
      /\ \A a, b, c \in Colons(line) : HostPortUserPassAt(line, a, b, c) =>
            /\ parsed = [host |-> Part(line, 0, a),
                         port |-> Numeral(Part(line, a, b), 0),
                         protocol |-> HTTP,
                         username |-> Part(line, b, c),
                         password |-> Part(line, c, Len(line) + 1)]
            /\ key = Part(line, 0, a) \o <<":">> \o Canonical(Part(line, a, b))

\* a host:port:user:pass line whose port has a leading zero has been parsed
C6_Witness ==
    /\ pc = "parsed"
    /\ line = <<"h", ":", "0", "1", ":", "h", ":">>
    /\ HostPortUserPassAt(line, 2, 5, 7)
    /\ parsed # None
    /\ key = <<"h", ":", "1">>

(***************************************************************************)
(* proxy_manager.py: the rotation.                                         *)
(***************************************************************************)
\* ProxyManager.__init__: the three collections, then load_proxies
ProxyManager__init__ ==
    /\ proxies' = load_proxies(proxy_file)
    /\ working_proxies' = <<>>
    /\ failed_proxies' = {}

\* the list without the filter
available_proxies_Unfiltered == proxies

\* [p for p in self.proxies if self._proxy_key(p) not in self.failed_proxies]
available_proxies ==
    SelectSeq(proxies, LAMBDA p : _proxy_key(p) \notin failed_proxies)

\* every proxy taken as tested
_is_proxy_tested_Always(p) == TRUE

\* only the failed set looked at
_is_proxy_tested_FailedOnly(p) == _proxy_key(p) \in failed_proxies

\* key in self.failed_proxies or proxy in self.working_proxies
_is_proxy_tested(p) ==
    _proxy_key(p) \in failed_proxies \/ p \in Range(working_proxies)

\* the failed set without the add
AddFailed_Forgotten(failed, p) == failed

\* self.failed_proxies.add(self._proxy_key(proxy))
AddFailed(failed, p) == failed \cup {_proxy_key(p)}

\* the list with nothing removed
ListRemove_Kept(s, x) == s

\* list.remove(x): without the first element equal to x
RECURSIVE ListRemove(_, _)
ListRemove(s, x) ==
    IF s = <<>> THEN s
    ELSE IF Head(s) = x THEN Tail(s)
    ELSE <<Head(s)>> \o ListRemove(Tail(s), x)

\* return value from get_random_proxy to the caller, which resumes at ret
Return(value, ret) == proxy' = value /\ pc' = ret

\* One activation of get_random_proxy: the outermost one or, after a failed
\* probe, the recursive one.  The probe's result is the network's.
GetRandomProxy(ret) ==
    /\ pc = "get_proxy"
    /\ UNCHANGED << parseVars, proxy_file, proxies, delayVars, botVars >>
    /\ \/ /\ proxies = <<>>
          /\ Return(None, ret)
          /\ UNCHANGED << working_proxies, failed_proxies, probes_in_call, probe_total,
                          probe_log >>
       \/ /\ proxies # <<>>
          /\ available_proxies = <<>>
          /\ Return(None, ret)
          /\ UNCHANGED << working_proxies, failed_proxies, probes_in_call, probe_total,
                          probe_log >>
       \/ \E k \in 1..Len(available_proxies) :
            LET p == available_proxies[k] IN
            \/ /\ _is_proxy_tested(p)
               /\ Return(p, ret)
               /\ UNCHANGED << working_proxies, failed_proxies, probes_in_call, probe_total,
                          probe_log >>
            \/ /\ ~_is_proxy_tested(p)          \* _test_proxy returned True
               /\ probes_in_call' = probes_in_call + 1
               /\ probe_total' = probe_total + 1
               /\ probe_log' = Append(probe_log, [proxy |-> p, ok |-> TRUE])
               /\ working_proxies' = Append(working_proxies, p)
               /\ Return(p, ret)
               /\ UNCHANGED failed_proxies
            \/ /\ ~_is_proxy_tested(p)          \* _test_proxy returned False
               /\ probes_in_call' = probes_in_call + 1
               /\ probe_total' = probe_total + 1
               /\ probe_log' = Append(probe_log, [proxy |-> p, ok |-> FALSE])
               /\ failed_proxies' = AddFailed(failed_proxies, p)
               /\ pc' = "get_proxy"             \* return self.get_random_proxy()
               /\ UNCHANGED << working_proxies, proxy >>

\* ProxyManager.mark_proxy_failed(p), for a proxy p of the list
MarkProxyFailed ==
    /\ pc = "idle"
    /\ \E k \in 1..Len(proxies) :
         LET p == proxies[k] IN
         /\ failed_proxies' = AddFailed(failed_proxies, p)
         /\ working_proxies' = IF p \in Range(working_proxies)
                                THEN ListRemove(working_proxies, p)
                                ELSE working_proxies
    /\ UNCHANGED << parseVars, proxy_file, proxies, proxy, probes_in_call,
                    probe_total, probe_log, delayVars, botVars, pc >>

(***************************************************************************)
(* A ProxyManager and a caller that calls its methods in any order         *)
(* (SpecProxy).                                                            *)
(***************************************************************************)
InitProxy ==
    /\ proxy_file \in ProxyFiles(MaxLines)
    /\ pc = "new"
    /\ line = <<>> /\ parsed = None /\ key = <<>>
    /\ proxies = <<>> /\ working_proxies = <<>>
    /\ failed_proxies = {} /\ proxy = None
    /\ probes_in_call = 0 /\ probe_total = 0 /\ probe_log = <<>>
    /\ cfg = NoConfig /\ drawn = [setting |-> "none", value |-> 0]
    /\ dry_run = FALSE /\ views = 0 /\ config_source = "none"
    /\ i = 0 /\ attempted = 0 /\ success_count = 0 /\ failed_count = 0
    /\ browser = 0 /\ live_browsers = 0 /\ started_browsers = 0
    /\ gv_called = FALSE /\ exit_status = -1 /\ interrupted = FALSE
    /\ calls = 0 /\ call_successes = 0 /\ result = 0

\* ProxyManager(proxy_file)
NewProxyManager ==
    /\ pc = "new"
    /\ ProxyManager__init__
    /\ pc' = "idle"
    /\ UNCHANGED << parseVars, proxy_file, proxy, probes_in_call, probe_total,
                    probe_log,
                    delayVars, botVars >>

\* the caller enters get_random_proxy()
CallGetRandomProxy ==
    /\ pc = "idle"
    /\ pc' = "get_proxy"
    /\ probes_in_call' = 0
    /\ UNCHANGED << parseVars, proxy_file, proxies, working_proxies,
                    failed_proxies, proxy, probe_total, probe_log, delayVars, botVars >>

NextProxy ==
    \/ NewProxyManager
    \/ CallGetRandomProxy
    \/ GetRandomProxy("idle")
    \/ MarkProxyFailed

SpecProxy == InitProxy /\ [][NextProxy]_vars

KeysOf(ps) == {_proxy_key(p) : p \in Range(ps)}

\* C2: a key that has entered failed_proxies is never removed, and a proxy
\* that get_random_proxy returns never has a key of failed_proxies, whatever
\* calls of get_random_proxy and mark_proxy_failed came before.
C2_FailedNeverReturned ==
    [][ /\ failed_proxies \subseteq failed_proxies'
        /\ (pc = "get_proxy" /\ pc' # "get_proxy" /\ proxy' # None)
              => _proxy_key(proxy') \notin failed_proxies' ]_vars

\* a call has returned a proxy after another proxy's probe failed in it
C2_Witness ==
    /\ pc = "idle"
    /\ probes_in_call = 2
    /\ proxy # None
    /\ failed_proxies # {}
    /\ _proxy_key(proxy) \notin failed_proxies

\* l is protocol://host:port, its colons at positions a < b
ProtocolHostPortAt(l, a, b) ==
    /\ a + 2 < b /\ b <= Len(l)
    /\ l[a] = ":" /\ l[a + 1] = "/" /\ l[a + 2] = "/" /\ l[b] = ":"
    /\ IsHost(Part(l, 0, a))
    /\ IsHost(Part(l, a + 2, b)) /\ IsPort(Part(l, b, Len(l) + 1))

\* C7: a line protocol://host:port of the proxy file is parsed to the record
\* with that protocol, host and port, and load_proxies puts the record in
\* the proxy list.
C7_ProtocolLineLoaded ==
    pc # "new" =>
      \A n \in 1..Len(proxy_file.lines) :
        LET l == proxy_file.lines[n] IN
        \A a, b \in 1..Len(l) : ProtocolHostPortAt(l, a, b) =>
          LET r == [host |-> Part(l, a + 2, b),
                    port |-> Numeral(Part(l, b, Len(l) + 1), 0),
                    protocol |-> Part(l, 0, a)]
          IN  _parse_proxy_line(l) = r /\ r \in Range(proxies)

\* C8: after load_proxies no two records of the proxy list have the same
\* host:port key.
C8_KeysUnique ==
    pc # "new" =>
      \A m, n \in 1..Len(proxies) :
        m # n => _proxy_key(proxies[m]) # _proxy_key(proxies[n])

\* C9 as the spec states it: one call of get_random_proxy issues at most
\* one probe.
C9_SingleProbePerCall == probes_in_call <= 1

\* C9, amended: a call probes the proxy it picked at most once, and a failed
\* probe makes it pick again: every probe of a call but its last has failed
\* and put a new key in failed_proxies, so one call issues at most as many
\* probes as the list has distinct host:port keys.
C9_ProbesBoundedByKeys ==
    /\ probes_in_call <= Cardinality(KeysOf(proxies))
    /\ pc = "get_proxy" => probes_in_call <= Cardinality(failed_proxies)

\* a call that probed twice: the first probe failed, the second passed
C9_Witness ==
    /\ pc = "idle"
    /\ probes_in_call = 2
    /\ proxy \in Range(working_proxies)
    /\ Cardinality(failed_proxies) = 1

(***************************************************************************)
(* config_manager.py and youtube_bot.py: the randomized timing (SpecDelay). *)
(* A TIMING entry is absent from the file, is not a number, or is a number; *)
(* a draw of random.random() is k / RandDen, and every time is kept as a    *)
(* numerator over RandDen.                                                  *)
(***************************************************************************)
DefaultMinDelay == 30
DefaultMaxDelay == 120
DefaultMinWatchDuration == 30
DefaultMaxWatchDuration == 180

Entries ==
    {[kind |-> "absent", value |-> 0], [kind |-> "invalid", value |-> 0]}
    \cup {[kind |-> "float", value |-> v] : v \in (0 - 1)..MaxCfg}

\* ConfigManager.get_float: the fallback when the entry is absent or when
\* getfloat raises on it
get_float(entry, fallback) ==
    IF entry.kind = "float" THEN entry.value ELSE fallback

get_min_delay == get_float(cfg.min_delay_between_views, DefaultMinDelay)
get_max_delay == get_float(cfg.max_delay_between_views, DefaultMaxDelay)
get_min_watch_duration == get_float(cfg.min_watch_duration, DefaultMinWatchDuration)
get_max_watch_duration == get_float(cfg.max_watch_duration, DefaultMaxWatchDuration)

\* a + b * random()
uniform_Unscaled(a, b, k) == a * RandDen + b * k

\* random.uniform(a, b) = a + (b - a) * random(), as a numerator over RandDen
uniform(a, b, k) == a * RandDen + (b - a) * k

InitDelay ==
    /\ cfg \in [min_delay_between_views : Entries, max_delay_between_views : Entries,
                 min_watch_duration : Entries, max_watch_duration : Entries]
    /\ drawn = [setting |-> "none", value |-> 0]
    /\ pc = "timing"
    /\ line = <<>> /\ parsed = None /\ key = <<>>
    /\ proxy_file = NoFile /\ proxies = <<>> /\ working_proxies = <<>>
    /\ failed_proxies = {} /\ proxy = None
    /\ probes_in_call = 0 /\ probe_total = 0 /\ probe_log = <<>>
    /\ dry_run = FALSE /\ views = 0 /\ config_source = "file"
    /\ i = 0 /\ attempted = 0 /\ success_count = 0 /\ failed_count = 0
    /\ browser = 0 /\ live_browsers = 0 /\ started_browsers = 0
    /\ gv_called = FALSE /\ exit_status = -1 /\ interrupted = FALSE
    /\ calls = 0 /\ call_successes = 0 /\ result = 0

\* YouTubeBot._get_random_delay
GetRandomDelay ==
    /\ pc = "timing"
    /\ \E k \in 0..RandDen :
         drawn' = [setting |-> "delay",
                   value |-> uniform(get_min_delay, get_max_delay, k)]
    /\ UNCHANGED << parseVars, proxyVars, cfg, botVars, pc >>

\* YouTubeBot._get_random_watch_duration
GetRandomWatchDuration ==
    /\ pc = "timing"
    /\ \E k \in 0..RandDen :
         drawn' = [setting |-> "watch",
                   value |-> uniform(get_min_watch_duration, get_max_watch_duration, k)]
    /\ UNCHANGED << parseVars, proxyVars, cfg, botVars, pc >>

NextDelay == GetRandomDelay \/ GetRandomWatchDuration

SpecDelay == InitDelay /\ [][NextDelay]_vars

Within(lo, v, hi) == lo * RandDen <= v /\ v <= hi * RandDen
Smaller(a, b) == IF a <= b THEN a ELSE b
Larger(a, b)  == IF a <= b THEN b ELSE a

\* C5 as the spec states it: every delay and every watch duration lies
\* between the configured (or default) minimum and maximum.
C5_WithinMinMax ==
    /\ drawn.setting = "delay" =>
          Within(get_min_delay, drawn.value, get_max_delay)
    /\ drawn.setting = "watch" =>
          Within(get_min_watch_duration, drawn.value, get_max_watch_duration)

\* C5, amended: every delay and every watch duration lies between the
\* smaller and the larger of the configured (or default) minimum and
\* maximum; it satisfies min <= d <= max whenever min <= max.
C5_WithinSmallerLarger ==
    /\ drawn.setting = "delay" =>
          Within(Smaller(get_min_delay, get_max_delay), drawn.value,
                 Larger(get_min_delay, get_max_delay))
    /\ drawn.setting = "watch" =>
          Within(Smaller(get_min_watch_duration, get_max_watch_duration),
                 drawn.value,
                 Larger(get_min_watch_duration, get_max_watch_duration))

\* a watch duration drawn strictly inside a configured range whose minimum
\* exceeds its maximum
C5_Witness ==
    /\ drawn.setting = "watch"
    /\ cfg.min_watch_duration.kind = "float"
    /\ cfg.max_watch_duration.kind = "float"
    /\ get_min_watch_duration > get_max_watch_duration
    /\ get_max_watch_duration * RandDen < drawn.value
    /\ drawn.value < get_min_watch_duration * RandDen

(***************************************************************************)
(* main.py and YouTubeBot.generate_views: the program from the end of      *)
(* argument parsing to its exit (Spec).  Every call into the logging       *)
(* library, the browser driver, the network or the clock either returns or *)
(* raises; which, is the environment's choice.                             *)
(***************************************************************************)
Init ==
    /\ dry_run \in BOOLEAN
    /\ views \in 0..MaxViews
    /\ proxy_file \in ProxyFiles(MaxMainLines)
    /\ pc = "setup_logging"
    /\ line = <<>> /\ parsed = None /\ key = <<>>
    /\ proxies = <<>> /\ working_proxies = <<>>
    /\ failed_proxies = {} /\ proxy = None
    /\ probes_in_call = 0 /\ probe_total = 0 /\ probe_log = <<>>
    /\ cfg = NoConfig /\ drawn = [setting |-> "none", value |-> 0]
    /\ config_source = "none"
    /\ i = 0 /\ attempted = 0 /\ success_count = 0 /\ failed_count = 0
    /\ browser = 0 /\ live_browsers = 0 /\ started_browsers = 0
    /\ gv_called = FALSE /\ exit_status = -1 /\ interrupted = FALSE
    /\ calls = 0 /\ call_successes = 0 /\ result = 0

\* the process ends with the given status
Exit(status) == pc' = "exit" /\ exit_status' = status

\* setup_logging(args.log_level), outside main's try: an exception of
\* FileHandler('youtube_bot.log') is not caught
SetupLogging ==
    /\ pc = "setup_logging"
    /\ \/ pc' = "load_config" /\ UNCHANGED exit_status
       \/ Exit(1)
    /\ UNCHANGED << parseVars, proxyVars, delayVars, dry_run, views,
                    config_source, i, attempted, success_count, failed_count,
                    browser, live_browsers, started_browsers, gv_called,
                    interrupted,
                    callVars >>

\* ConfigManager(args.config): load_config reads the file, or falls back to
\* the default configuration when there is none or reading it raises
LoadConfig ==
    /\ pc = "load_config"
    /\ \E source \in {"file", "default"} : config_source' = source
    /\ pc' = "construct"
    /\ UNCHANGED << parseVars, proxyVars, delayVars, dry_run, views, i,
                    attempted, success_count, failed_count, browser,
                    live_browsers, started_browsers, gv_called, exit_status,
                    interrupted,
                    callVars >>

\* an exception that leaves main's try block: logged, then sys.exit(1)
MainExcept == Exit(1)

\* YouTubeBot(config_manager): the ProxyManager (which loads the proxy file),
\* then the BrowserManager, whose UserAgent() may raise, then the counters
ConstructBot ==
    /\ pc = "construct"
    /\ ProxyManager__init__
    /\ \/ pc' = "dry_run_check" /\ UNCHANGED exit_status
       \/ MainExcept
    /\ success_count' = 0 /\ failed_count' = 0
    /\ UNCHANGED << parseVars, proxy_file, proxy, probes_in_call, probe_total,
                    probe_log,
                    delayVars, dry_run, views, config_source, i, attempted,
                    browser, live_browsers, started_browsers, gv_called,
                    interrupted,
                    callVars >>

\* the branch never taken
DryRunBranch_Ignored == FALSE

\* if args.dry_run:
DryRunBranch == dry_run

\* the entry of generate_views: the counters of the bot are left as they are
EnterGenerateViews ==
    /\ gv_called' = TRUE
    /\ calls' = calls + 1
    /\ call_successes' = 0
    /\ i' = 0
    /\ pc' = "loop"

\* main after the bot is built: return on --dry-run, else call generate_views
MainRun ==
    /\ pc = "dry_run_check"
    /\ IF DryRunBranch
       THEN /\ Exit(0)
            /\ UNCHANGED << gv_called, i, calls, call_successes >>
       ELSE /\ EnterGenerateViews
            /\ UNCHANGED exit_status
    /\ UNCHANGED << parseVars, proxyVars, delayVars, dry_run, views,
                    config_source, attempted, success_count, failed_count,
                    browser, live_browsers, started_browsers, interrupted,
                    result >>

\* for i in range(target_views): the next iteration calls get_random_proxy;
\* after the last one generate_views returns
LoopHead ==
    /\ pc = "loop"
    /\ IF i < views
       THEN /\ attempted' = attempted + 1
            /\ probes_in_call' = 0
            /\ pc' = "get_proxy"
            /\ UNCHANGED result
       ELSE /\ result' = success_count          \* return self.success_count
            /\ pc' = "returned"
            /\ UNCHANGED << attempted, probes_in_call >>
    /\ UNCHANGED << parseVars, proxy_file, proxies, working_proxies,
                    failed_proxies, proxy, probe_total, probe_log, delayVars, dry_run,
                    views, config_source, i, success_count, failed_count,
                    browser, live_browsers, started_browsers, gv_called,
                    exit_status, interrupted,
                    calls, call_successes >>

\* browser = self.browser_manager.create_browser(proxy), and the else branch
\* of "if browser".  create_browser returns the driver, or None when a step
\* raised: before webdriver.Chrome started a process, or after it
CreateBrowser ==
    /\ pc = "create_browser"
    /\ \/ /\ browser' = 1                      \* the driver
          /\ live_browsers' = live_browsers + 1
          /\ started_browsers' = started_browsers + 1
          /\ pc' = "simulate"
          /\ UNCHANGED failed_count
       \/ /\ browser' = 0                      \* options or Chrome() raised
          /\ failed_count' = failed_count + 1
          /\ pc' = "wait"
          /\ UNCHANGED << live_browsers, started_browsers >>
       \/ /\ browser' = 0                      \* a setup step raised
          /\ live_browsers' = live_browsers + 1
          /\ started_browsers' = started_browsers + 1
          /\ failed_count' = failed_count + 1
          /\ pc' = "wait"
    /\ UNCHANGED << parseVars, proxyVars, delayVars, dry_run, views,
                    config_source, i, attempted, success_count, gv_called,
                    exit_status, interrupted,
                    callVars >>

\* what _simulate_view returns for each way it can end
SimulateOutcomes ==
    [loaded_and_watched |-> TRUE, navigation_raised |-> FALSE,
     no_video_element |-> FALSE, sleep_raised |-> FALSE]

\* success = self._simulate_view(browser, video_url), and the count
SimulateView ==
    /\ pc = "simulate"
    /\ \E outcome \in DOMAIN SimulateOutcomes :
         IF SimulateOutcomes[outcome]
         THEN /\ success_count' = success_count + 1
              /\ call_successes' = call_successes + 1
              /\ UNCHANGED failed_count
         ELSE /\ failed_count' = failed_count + 1
              /\ UNCHANGED << success_count, call_successes >>
    /\ pc' = "close"
    /\ UNCHANGED << parseVars, proxyVars, delayVars, dry_run, views,
                    config_source, i, attempted, browser, live_browsers,
                    started_browsers, gv_called, exit_status, interrupted,
                    calls, result >>

\* self.browser_manager.close_browser(browser): driver.quit() ends the
\* process; when it raises (caught and logged) the process may live on
CloseBrowser ==
    /\ pc = "close"
    /\ \/ live_browsers' = live_browsers - 1
       \/ UNCHANGED live_browsers
    /\ pc' = "wait"
    /\ UNCHANGED << parseVars, proxyVars, delayVars, dry_run, views,
                    config_source, i, attempted, success_count, failed_count,
                    browser, started_browsers, gv_called, exit_status,
                    interrupted,
                    callVars >>

\* an exception that reaches "except Exception" of the view loop
LoopExcept == failed_count' = failed_count + 1

\* the wait outside the try block: its exception reaches main
Wait_Unhandled ==
    /\ pc = "wait"
    /\ \/ i' = i + 1 /\ pc' = "loop" /\ UNCHANGED exit_status
       \/ i < views - 1 /\ MainExcept /\ UNCHANGED i
    /\ UNCHANGED << parseVars, proxyVars, delayVars, dry_run, views,
                    config_source, attempted, success_count, failed_count,
                    browser, live_browsers, started_browsers, gv_called,
                    interrupted,
                    callVars >>

\* the wait between views: time.sleep(self._get_random_delay()) unless this
\* was the last view; time.sleep raises on a negative (or NaN) delay
Wait ==
    /\ pc = "wait"
    /\ \/ UNCHANGED failed_count
       \/ i < views - 1 /\ LoopExcept
    /\ i' = i + 1
    /\ pc' = "loop"
    /\ UNCHANGED << parseVars, proxyVars, delayVars, dry_run, views,
                    config_source, attempted, success_count, browser,
                    live_browsers, started_browsers, gv_called, exit_status,
                    interrupted,
                    callVars >>

\* success_count = bot.generate_views(...) has returned; main logs and ends
MainFinish ==
    /\ pc = "returned"
    /\ Exit(0)
    /\ UNCHANGED << parseVars, proxyVars, delayVars, dry_run, views,
                    config_source, i, attempted, success_count, failed_count,
                    browser, live_browsers, started_browsers, gv_called,
                    interrupted,
                    callVars >>

InMainTry ==
    pc \in {"load_config", "construct", "dry_run_check", "loop", "get_proxy",
            "create_browser", "simulate", "close", "wait", "returned"}

\* the user's Ctrl-C: KeyboardInterrupt is no Exception, so it passes the
\* handlers of the view loop and reaches main's "except KeyboardInterrupt"
KeyboardInterrupt ==
    /\ InMainTry
    /\ interrupted' = TRUE
    /\ Exit(0)
    /\ UNCHANGED << parseVars, proxyVars, delayVars, dry_run, views,
                    config_source, i, attempted, success_count, failed_count,
                    browser, live_browsers, started_browsers, gv_called,
                    callVars >>

Next ==
    \/ SetupLogging
    \/ LoadConfig
    \/ ConstructBot
    \/ MainRun
    \/ LoopHead
    \/ GetRandomProxy("create_browser")
    \/ CreateBrowser
    \/ SimulateView
    \/ CloseBrowser
    \/ Wait
    \/ MainFinish
    \/ KeyboardInterrupt

Spec == Init /\ [][Next]_vars

\* C1: when generate_views has returned, success_count + failed_count is
\* the number of views asked for.
C1_CountersSumToViews ==
    pc = "returned" => success_count + failed_count = views

\* C3: at most one browser process exists at any time, and none is left
\* when the next view begins or when generate_views has returned.
C3_OneBrowserTornDown ==
    /\ live_browsers <= 1
    /\ pc \in {"loop", "get_proxy", "create_browser", "returned"}
         => live_browsers = 0

\* C4 as the spec states it: no exception raised after the configuration
\* load is fatal; the program never exits with an error status, and
\* generate_views attempts all the views asked for and returns.
C4_NeverFatal ==
    /\ (pc = "exit" /\ config_source # "none") => exit_status = 0
    /\ pc = "returned" => attempted = views

\* C4, amended: an exception raised inside generate_views is logged and
\* counted, so once generate_views is called it attempts all the views
\* asked for and returns, and the program exits with status 0 (as it does
\* on the user's interrupt); the program exits with status 1 only when
\* logging setup or bot construction raised, before any view.
C4_FatalOnlyBeforeViews ==
    /\ pc = "exit" => exit_status \in {0, 1}
    /\ exit_status = 1 => ~gv_called /\ attempted = 0 /\ ~interrupted
    /\ pc = "returned" => attempted = views
    /\ (pc = "exit" /\ gv_called /\ ~interrupted)
         => exit_status = 0 /\ attempted = views /\ i = views

\* a run of two views that ended normally although every step that can
\* fail did: both views failed and the sleep between them raised
C4_Witness ==
    /\ pc = "exit" /\ exit_status = 0
    /\ gv_called /\ ~interrupted
    /\ views = 2 /\ attempted = 2
    /\ success_count = 0 /\ failed_count = 3

\* C10: with --dry-run generate_views is never called, no browser is
\* created, no proxy is probed and both counters stay 0.
C10_DryRunNoViews ==
    dry_run =>
      /\ ~gv_called /\ attempted = 0
      /\ started_browsers = 0 /\ live_browsers = 0
      /\ probe_total = 0 /\ probe_log = <<>>
      /\ success_count = 0 /\ failed_count = 0

\* a dry run with a bot built on a loaded proxy list has ended
C10_Witness ==
    /\ dry_run /\ views = 2
    /\ pc = "exit" /\ exit_status = 0 /\ ~interrupted
    /\ config_source = "file"
    /\ proxies # <<>>

(***************************************************************************)
(* The ProxyManager under a caller that lets a call run to its end: the    *)
(* thread inside get_random_proxy keeps running, and a probe returns       *)
(* within its timeout of 10 seconds (SpecProxyFair).                       *)
(***************************************************************************)
SpecProxyFair == SpecProxy /\ WF_vars(GetRandomProxy("idle"))

\* the probes of the log that passed
PassedIn(log, p) ==
    \E k \in 1..Len(log) : log[k] = [proxy |-> p, ok |-> TRUE]

\* C11: a proxy that get_random_proxy returns has passed a probe earlier in
\* the process, is in working_proxies when it is returned and has no key of
\* failed_proxies; None is returned only when the list is empty or every
\* proxy of the list has its key in failed_proxies.
C11_ReturnsWorkingProxy ==
    [][ (pc = "get_proxy" /\ pc' # "get_proxy") =>
          /\ proxy' # None =>
                /\ PassedIn(probe_log', proxy')
                /\ proxy' \in Range(working_proxies')
                /\ _proxy_key(proxy') \notin failed_proxies'
          /\ proxy' = None =>
                \/ proxies' = <<>>
                \/ \A p \in Range(proxies') : _proxy_key(p) \in failed_proxies' ]_vars

\* a call has returned, without a probe of its own, a proxy that passed its
\* probe in an earlier call, while another proxy's key has failed
C11_Witness ==
    /\ pc = "idle"
    /\ probes_in_call = 0
    /\ proxy # None
    /\ PassedIn(probe_log, proxy)
    /\ proxy \in Range(working_proxies)
    /\ failed_proxies # {}

\* C12: every call of get_random_proxy ends; a retry follows a probe that
\* put a new key in failed_proxies, so a call probes at most as often as the
\* list has distinct host:port keys; and over the whole process no proxy
\* record is probed twice.
C12_CallTerminates ==
    /\ (pc = "get_proxy") ~> (pc = "idle")
    /\ [][ (pc = "get_proxy" /\ pc' = "get_proxy") =>
             /\ failed_proxies \subseteq failed_proxies'
             /\ Cardinality(failed_proxies') = Cardinality(failed_proxies) + 1
             /\ probes_in_call' = probes_in_call + 1 ]_vars
    /\ [](probes_in_call <= Cardinality(KeysOf(proxies)))
    /\ [](\A j, k \in 1..Len(probe_log) :
             j # k => probe_log[j].proxy # probe_log[k].proxy)

\* a call on a list of two keys has ended with None after two failed
\* probes, one per key
C12_Witness ==
    /\ pc = "idle"
    /\ proxy = None
    /\ probes_in_call = 2
    /\ Len(probe_log) = 2
    /\ Cardinality(failed_proxies) = 2
    /\ Cardinality(KeysOf(proxies)) = 2

\* ProxyManager.get_proxy_stats
get_proxy_stats ==
    [total    |-> Len(proxies),
     working  |-> Len(working_proxies),
     failed   |-> Cardinality(failed_proxies),
     untested |-> Len(proxies) - Len(working_proxies)
                  - Cardinality(failed_proxies)]

\* C13: after any calls of get_random_proxy and of mark_proxy_failed on
\* proxies of the list, get_proxy_stats has working + failed <= total and
\* untested >= 0, also for a list with repeated lines or shared keys.
C13_StatsConsistent ==
    pc # "new" =>
      /\ get_proxy_stats.working + get_proxy_stats.failed <= get_proxy_stats.total
      /\ get_proxy_stats.untested >= 0

\* two records share one key; one was marked failed while the other, which
\* passed its probe, is still in working_proxies
C13_Witness ==
    /\ pc = "idle"
    /\ Len(proxies) = 2
    /\ proxies[1] # proxies[2]
    /\ Cardinality(KeysOf(proxies)) = 1
    /\ get_proxy_stats.working = 1
    /\ get_proxy_stats.failed = 1
    /\ get_proxy_stats.untested = 0

(***************************************************************************)
(* A YouTubeBot and a caller that calls generate_views on it more than     *)
(* once (SpecBot).                                                         *)
(***************************************************************************)
\* the bot as YouTubeBot.__init__ leaves it
InitBot ==
    /\ proxy_file \in ProxyFiles(MaxMainLines)
    /\ proxies = load_proxies(proxy_file)
    /\ working_proxies = <<>> /\ failed_proxies = {} /\ proxy = None
    /\ probes_in_call = 0 /\ probe_total = 0 /\ probe_log = <<>>
    /\ success_count = 0 /\ failed_count = 0
    /\ pc = "bot_idle"
    /\ line = <<>> /\ parsed = None /\ key = <<>>
    /\ cfg = NoConfig /\ drawn = [setting |-> "none", value |-> 0]
    /\ dry_run = FALSE /\ views = 0 /\ config_source = "file"
    /\ i = 0 /\ attempted = 0
    /\ browser = 0 /\ live_browsers = 0 /\ started_browsers = 0
    /\ gv_called = FALSE /\ exit_status = -1 /\ interrupted = FALSE
    /\ calls = 0 /\ call_successes = 0 /\ result = 0

\* bot.generate_views(url, n), on a new bot or after an earlier call returned
CallGenerateViews ==
    /\ pc \in {"bot_idle", "returned"}
    /\ calls < MaxCalls
    /\ \E n \in 0..MaxViews : views' = n
    /\ EnterGenerateViews
    /\ UNCHANGED << parseVars, proxyVars, delayVars, dry_run, config_source,
                    attempted, success_count, failed_count, browser,
                    live_browsers, started_browsers, exit_status, interrupted,
                    result >>

NextBot ==
    \/ CallGenerateViews
    \/ LoopHead
    \/ GetRandomProxy("create_browser")
    \/ CreateBrowser
    \/ SimulateView
    \/ CloseBrowser
    \/ Wait

SpecBot == InitBot /\ [][NextBot]_vars

\* C14: what generate_views(url, n) returns is the number of views of that
\* call that _simulate_view passed, and lies between 0 and n, on every call
\* made on the bot.
C14_ResultIsCallSuccesses ==
    pc = "returned" =>
      /\ result = call_successes
      /\ 0 <= result /\ result <= views

====
